---------------------------- MODULE Spec2Model ----------------------------
(***************************************************************************)
(* KavitaMangaReaderActivity: the BLE manga-reader session of             *)
(* crosspoint-reader (src/activities/bluetooth/KavitaMangaReaderActivity). *)
(*                                                                         *)
(* Two execution contexts share the activity object without a lock:       *)
(*   - the main task, which runs onEnter/onExit and loop() with its       *)
(*     handle* functions (pcLoop is its position inside one loop() call), *)
(*   - the NimBLE host task, which runs the server and characteristic     *)
(*     callbacks onConnect, onDisconnect, onWrite (pcBle is its position  *)
(*     inside one callback).                                               *)
(* A step performs one read or one write of the shared fields (state,     *)
(* errorMessage, mangaList, currentMangaIndex), so that every interleaving *)
(* of the two tasks at that grain is a behaviour.                          *)
(***************************************************************************)
EXTENDS Integers, Sequences, FiniteSets, TLC

\* ------------------------------------------------------------------ bounds
\* Most entries mangaList holds (push_back is not offered beyond it).
MaxCatalog == 2
\* Longest LIST_ENTRY frame (tag byte included) the decoder is tried on.
MaxFrameLen == 5
\* Largest page, in bytes, a chunk is written into.
MaxPage == 2

\* --------------------------------------------------------- wire constants
\* enum class BleCommand
REQUEST_LIST == 1
REQUEST_PAGE == 2
\* enum class BleStatus
STATUS_OK == 0
STATUS_ERROR == 1
LIST_START == 16
LIST_ENTRY == 17
LIST_END == 18
PAGE_START == 32
PAGE_DATA == 33
PAGE_END == 34
\* Tag bytes that are no BleStatus value (the switch's default branch).
UnknownStatuses == { 127 }

\* enum class KavitaMangaReaderState
KavitaMangaReaderState ==
  { "CHECK_COMPANION_APP", "WAITING_FOR_APP", "LOAD_LIST", "RECEIVING_LIST",
    "BROWSING_LIST", "LOAD_PAGE", "RECEIVING_PAGE", "DISPLAY_PAGE", "ERROR" }

\* MappedInputManager::Button values the handlers test.
Buttons ==
  { "Back", "Confirm", "Up", "Down", "Left", "Right", "PageBack", "PageForward" }

\* The buttons a state's handler reads with wasPressed; the others cannot
\* influence the tick.
ButtonsReadIn(s) ==
  CASE s = "BROWSING_LIST" -> { "Back", "Up", "Down", "Confirm" }
    [] s = "DISPLAY_PAGE"  -> { "Back", "Left", "PageBack", "Right", "PageForward" }
    [] s = "ERROR"         -> { "Back", "Confirm" }
    [] OTHER               -> {}

\* ------------------------------------------------------------ inbound data
StatusBytes ==
  { STATUS_OK, STATUS_ERROR, LIST_START, LIST_ENTRY, LIST_END,
    PAGE_START, PAGE_DATA, PAGE_END } \cup UnknownStatuses

SeqsUpTo(S, n) == UNION { [1..k -> S] : k \in 0..n }

Prefixes(f) == { SubSeq(f, 1, k) : k \in 1..Len(f) }

\* The companion app's library in the session model: "1"/"A" and "2"/"B".
PeerEntries ==
  { [ id |-> << 49 >>, title |-> << 65 >> ],
    [ id |-> << 50 >>, title |-> << 66 >> ] }

\* [status][id_length][id...][title_length][title...] as the peer writes it.
EncodeListEntry(e) ==
  << LIST_ENTRY, Len(e.id) >> \o e.id \o << Len(e.title) >> \o e.title

\* [status][chunk_offset (4 bytes)][data...]: one chunk at offset 0.
PageChunkFrame == << PAGE_DATA, 0, 0, 0, 0, 7 >>

\* The frames the peer writes in the session model: the empty write, every
\* tag alone, the library's entries and one page chunk, whole and cut short.
Frames ==
  { << >> } \cup { << t >> : t \in StatusBytes }
    \cup UNION { Prefixes(EncodeListEntry(e)) : e \in PeerEntries }
    \cup Prefixes(PageChunkFrame)

\* Bytes after the tag in the decoder model: each is a length (0 or 1, the
\* latter oversized when the frame ends there) or a content byte.
PayloadBytes == { 0, 1 }

\* Every LIST_ENTRY frame of up to MaxFrameLen bytes over PayloadBytes.
ListEntryFrames ==
  { << LIST_ENTRY >> \o p : p \in SeqsUpTo(PayloadBytes, MaxFrameLen - 1) }

\* Byte values of the frames of the read-index model: small lengths, a content
\* byte, and the largest uint8_t as a length no frame is long enough for.
DecoderBytes == { 0, 1, 255 }

\* Every LIST_ENTRY frame of up to MaxFrameLen bytes over DecoderBytes.
WideListEntryFrames ==
  { << LIST_ENTRY >> \o p : p \in SeqsUpTo(DecoderBytes, MaxFrameLen - 1) }

\* PAGE_DATA frames: the tag, four offset bytes (each 0 or 255) and a chunk of
\* up to MaxPage bytes, whole and cut short.
PageDataFrames ==
  UNION { Prefixes(<< PAGE_DATA >> \o o \o c) :
            o \in [ 1..4 -> { 0, 255 } ], c \in { [ i \in 1..n |-> 7 ] : n \in 0..MaxPage } }

\* The frames of the read-index model.
DecoderFrames == { << >> } \cup WideListEntryFrames \cup PageDataFrames

\* data[k] of the C++ code (0-based).
At(data, k) == data[k + 1]

\* std::string(&data[from], n)
Bytes(data, from, n) == SubSeq(data, from + 1, from + n)

VARIABLES
  state,              \* KavitaMangaReaderState state
  errorMessage,       \* std::string errorMessage
  mangaList,          \* std::vector<MangaEntry> mangaList
  currentMangaIndex,  \* int currentMangaIndex
  bleServer,          \* bleServer != nullptr
  cmdCharacteristic,  \* cmdCharacteristic != nullptr
  dataCharacteristic, \* dataCharacteristic != nullptr
  dataValue,          \* the value last set on dataCharacteristic and notified
  connected,          \* bleServer->getConnectedCount() > 0
  active,             \* between onEnter and onExit
  pcLoop,             \* main task: position inside loop()
  pressed,            \* main task: the tick's wasPressed snapshot
  pcBle,              \* NimBLE host task: position inside a callback
  pcRender,           \* render task: "idle", or "crashed" once render stopped the device
  updateRequested,    \* requestUpdate() called and not yet rendered
  listing,            \* history: progress of the listing exchange since REQUEST_LIST
  expected            \* history: the entries the peer delivered in that exchange

vars ==
  << state, errorMessage, mangaList, currentMangaIndex, bleServer,
     cmdCharacteristic, dataCharacteristic, dataValue, connected, active,
     pcLoop, pressed, pcBle, pcRender, updateRequested, listing, expected >>

\* The three fields the specification calls SessionState, Catalog, SelectionCursor.
session == << state, mangaList, currentMangaIndex >>

ble == << bleServer, cmdCharacteristic, dataCharacteristic >>
history == << listing, expected >>

\* ---------------------------------------------------------------- Init
\* The object after its constructor: the in-class member initialisers.
Init ==
  /\ state = "CHECK_COMPANION_APP"
  /\ errorMessage = ""
  /\ mangaList = <<>>
  /\ currentMangaIndex = -1
  /\ bleServer = FALSE
  /\ cmdCharacteristic = FALSE
  /\ dataCharacteristic = FALSE
  /\ dataValue = <<>>
  /\ connected = FALSE
  /\ active = FALSE
  /\ pcLoop = "idle"
  /\ pressed = {}
  /\ pcBle = "idle"
  /\ pcRender = "idle"
  /\ updateRequested = FALSE
  /\ listing = "off"
  /\ expected = <<>>

\* ------------------------------------------------------------ lifecycle
\* Mutant of OnEnter: errorMessage.clear() left out.
OnEnter_KeepingMessage ==
  /\ ~active
  /\ pcLoop = "idle"
  /\ pcBle = "idle"
  /\ state' = "CHECK_COMPANION_APP"
  /\ mangaList' = <<>>
  /\ currentMangaIndex' = -1
  /\ bleServer' = TRUE
  /\ cmdCharacteristic' \in BOOLEAN
  /\ dataCharacteristic' = cmdCharacteristic'
  /\ dataValue' = <<>>
  /\ connected' = FALSE
  /\ active' = TRUE
  /\ updateRequested' = TRUE
  /\ listing' = "off"
  /\ expected' = <<>>
  /\ UNCHANGED << errorMessage, pcLoop, pressed, pcBle, pcRender >>

\* onEnter(): reset the session fields, setupBLE(), startAdvertising(),
\* requestUpdate().  setupBLE() stores what createServer and
\* createCharacteristic return: the server always exists; the two
\* characteristics of the one service exist together, or BLE is "not
\* initialized" and both are null.
OnEnter ==
  /\ ~active
  /\ pcLoop = "idle"
  /\ pcBle = "idle"
  /\ state' = "CHECK_COMPANION_APP"
  /\ errorMessage' = ""
  /\ mangaList' = <<>>
  /\ currentMangaIndex' = -1
  /\ bleServer' = TRUE
  /\ cmdCharacteristic' \in BOOLEAN
  /\ dataCharacteristic' = cmdCharacteristic'
  /\ dataValue' = <<>>
  /\ connected' = FALSE
  /\ active' = TRUE
  /\ updateRequested' = TRUE
  /\ listing' = "off"
  /\ expected' = <<>>
  /\ UNCHANGED << pcLoop, pressed, pcBle, pcRender >>

\* onGoHome() as called from a handler: the framework leaves the activity,
\* which runs onExit(): stopAdvertising(); mangaList.clear().
GoHome ==
  /\ pcRender = "idle"
  /\ mangaList' = <<>>
  /\ active' = FALSE
  /\ pcLoop' = "idle"
  /\ pressed' = {}
  /\ listing' = "off"
  /\ expected' = <<>>
  /\ UNCHANGED << state, errorMessage, currentMangaIndex, ble, dataValue,
                  connected, pcBle, pcRender, updateRequested >>

\* ------------------------------------------------------------ main task
\* The entry position of the handler loop()'s switch selects.
HandlerOf(s) ==
  CASE s = "CHECK_COMPANION_APP" -> "check"
    [] s = "WAITING_FOR_APP"     -> "wait"
    [] s = "LOAD_LIST"           -> "load_list"
    [] s = "RECEIVING_LIST"      -> "receive_list"
    [] s = "BROWSING_LIST"       -> "browsing"
    [] s = "LOAD_PAGE"           -> "load_page"
    [] s = "RECEIVING_PAGE"      -> "receive_page"
    [] s = "DISPLAY_PAGE"        -> "display"
    [] s = "ERROR"               -> "error"

\* loop(): one tick starts; the switch reads state.
LoopDispatch ==
  /\ active
  /\ pcLoop = "idle"
  /\ pcRender = "idle"
  /\ pcLoop' = HandlerOf(state)
  /\ listing' = IF listing = "ended" THEN "off" ELSE listing
  /\ UNCHANGED << state, errorMessage, mangaList, currentMangaIndex, ble,
                  dataValue, connected, active, pressed, pcBle, pcRender,
                  updateRequested, expected >>

\* A step of the main task inside a handler: the device still runs; what the
\* step leaves alone besides the session fields.
LoopFrame ==
  /\ pcRender = "idle"
  /\ UNCHANGED << ble, connected, active, pcBle, pcRender, history >>

\* Mutant of CheckTarget: the two branches of the connection test exchanged.
CheckTarget_Exchanged(isConnected) ==
  IF isConnected THEN "WAITING_FOR_APP" ELSE "LOAD_LIST"

\* The state handleCheckCompanionApp assigns for a connection test result.
CheckTarget(isConnected) ==
  IF isConnected THEN "LOAD_LIST" ELSE "WAITING_FOR_APP"

\* handleCheckCompanionApp(): bleServer && bleServer->getConnectedCount() > 0
HandleCheckCompanionApp_Read ==
  /\ pcLoop = "check"
  /\ pcLoop' = IF bleServer /\ connected THEN "check_conn" ELSE "check_noconn"
  /\ UNCHANGED << state, errorMessage, mangaList, currentMangaIndex,
                  dataValue, pressed, updateRequested >>
  /\ LoopFrame

\* handleCheckCompanionApp(): state = ...; requestUpdate()
HandleCheckCompanionApp_Write ==
  /\ pcLoop \in { "check_conn", "check_noconn" }
  /\ state' = CheckTarget(pcLoop = "check_conn")
  /\ updateRequested' = TRUE
  /\ pcLoop' = "idle"
  /\ UNCHANGED << errorMessage, mangaList, currentMangaIndex, dataValue, pressed >>
  /\ LoopFrame

\* handleWaitForCompanionApp(): the connection test
HandleWaitForCompanionApp_Read ==
  /\ pcLoop = "wait"
  /\ pcLoop' = IF bleServer /\ connected THEN "wait_conn" ELSE "idle"
  /\ UNCHANGED << state, errorMessage, mangaList, currentMangaIndex,
                  dataValue, pressed, updateRequested >>
  /\ LoopFrame

\* handleWaitForCompanionApp(): state = LOAD_LIST; requestUpdate()
HandleWaitForCompanionApp_Write ==
  /\ pcLoop = "wait_conn"
  /\ state' = "LOAD_LIST"
  /\ updateRequested' = TRUE
  /\ pcLoop' = "idle"
  /\ UNCHANGED << errorMessage, mangaList, currentMangaIndex, dataValue, pressed >>
  /\ LoopFrame

\* Mutant of HandleLoadList_Clear: the old list is kept for the new request.
HandleLoadList_Clear_Keeping ==
  /\ pcLoop = "load_list"
  /\ pcLoop' = "load_list_send"
  /\ UNCHANGED << state, errorMessage, mangaList, currentMangaIndex, dataValue,
                  pressed, updateRequested >>
  /\ LoopFrame

\* handleLoadList(): mangaList.clear()
HandleLoadList_Clear ==
  /\ pcLoop = "load_list"
  /\ mangaList' = <<>>
  /\ pcLoop' = "load_list_send"
  /\ UNCHANGED << state, errorMessage, currentMangaIndex, dataValue, pressed,
                  updateRequested >>
  /\ LoopFrame

\* handleLoadList(): if (cmdCharacteristic) { setValue(&cmd, 1); notify(); }
\* else errorMessage = "BLE not initialized".  The send goes through
\* dataCharacteristic, which the test does not cover: null there stops the
\* device.
HandleLoadList_Send ==
  /\ pcLoop = "load_list_send"
  /\ IF cmdCharacteristic
       THEN IF dataCharacteristic
              THEN /\ dataValue' = << REQUEST_LIST >>
                   /\ listing' = "requested"
                   /\ expected' = <<>>
                   /\ pcLoop' = "load_list_state"
                   /\ UNCHANGED errorMessage
              ELSE /\ pcLoop' = "crashed"
                   /\ UNCHANGED << dataValue, errorMessage, history >>
       ELSE /\ errorMessage' = "BLE not initialized"
            /\ pcLoop' = "load_list_error"
            /\ UNCHANGED << dataValue, history >>
  /\ pcRender = "idle"
  /\ UNCHANGED << state, mangaList, currentMangaIndex, pressed, updateRequested,
                  ble, connected, active, pcBle, pcRender >>

\* handleLoadList(): state = RECEIVING_LIST (or ERROR); requestUpdate()
HandleLoadList_State ==
  /\ pcLoop \in { "load_list_state", "load_list_error" }
  /\ state' = IF pcLoop = "load_list_state" THEN "RECEIVING_LIST" ELSE "ERROR"
  /\ updateRequested' = TRUE
  /\ pcLoop' = "idle"
  /\ UNCHANGED << errorMessage, mangaList, currentMangaIndex, dataValue, pressed >>
  /\ LoopFrame

\* handleReceiveList(), handleReceivingPage(): empty bodies
HandleReceive ==
  /\ pcLoop \in { "receive_list", "receive_page" }
  /\ pcLoop' = "idle"
  /\ UNCHANGED << state, errorMessage, mangaList, currentMangaIndex,
                  dataValue, pressed, updateRequested >>
  /\ LoopFrame

\* handleBrowsingList(): if (wasPressed(Back)) { onGoHome(); return; }
\* p is the set of buttons wasPressed answers true for in this tick.
HandleBrowsingList_Back(p) ==
  /\ pcLoop = "browsing"
  /\ IF "Back" \in p
       THEN GoHome
       ELSE /\ pcLoop' = "browsing_up"
            /\ pressed' = p
            /\ UNCHANGED << state, errorMessage, mangaList, currentMangaIndex,
                            dataValue, updateRequested >>
            /\ LoopFrame

\* handleBrowsingList(): wasPressed(Up) && currentMangaIndex > 0
HandleBrowsingList_UpTest ==
  /\ pcLoop = "browsing_up"
  /\ pcLoop' = IF "Up" \in pressed /\ currentMangaIndex > 0
                 THEN "browsing_up_write" ELSE "browsing_down"
  /\ pressed' = pressed \ { "Up" }
  /\ UNCHANGED << state, errorMessage, mangaList, currentMangaIndex,
                  dataValue, updateRequested >>
  /\ LoopFrame

\* handleBrowsingList(): currentMangaIndex--; requestUpdate()
HandleBrowsingList_UpWrite ==
  /\ pcLoop = "browsing_up_write"
  /\ currentMangaIndex' = currentMangaIndex - 1
  /\ updateRequested' = TRUE
  /\ pcLoop' = "browsing_down"
  /\ UNCHANGED << state, errorMessage, mangaList, dataValue, pressed >>
  /\ LoopFrame

\* handleBrowsingList(): wasPressed(Down) && currentMangaIndex < size - 1
HandleBrowsingList_DownTest ==
  /\ pcLoop = "browsing_down"
  /\ pcLoop' = IF "Down" \in pressed /\ currentMangaIndex < Len(mangaList) - 1
                 THEN "browsing_down_write" ELSE "browsing_confirm"
  /\ pressed' = pressed \ { "Down" }
  /\ UNCHANGED << state, errorMessage, mangaList, currentMangaIndex,
                  dataValue, updateRequested >>
  /\ LoopFrame

\* handleBrowsingList(): currentMangaIndex++; requestUpdate()
HandleBrowsingList_DownWrite ==
  /\ pcLoop = "browsing_down_write"
  /\ currentMangaIndex' = currentMangaIndex + 1
  /\ updateRequested' = TRUE
  /\ pcLoop' = "browsing_confirm"
  /\ UNCHANGED << state, errorMessage, mangaList, dataValue, pressed >>
  /\ LoopFrame

\* The selection test of handleBrowsingList and (negated) handleLoadPage.
ValidSelection(index, list) == index >= 0 /\ index < Len(list)

\* handleBrowsingList(): wasPressed(Confirm) && the selection is valid
HandleBrowsingList_ConfirmTest ==
  /\ pcLoop = "browsing_confirm"
  /\ pcLoop' = IF "Confirm" \in pressed /\ ValidSelection(currentMangaIndex, mangaList)
                 THEN "browsing_confirm_write" ELSE "idle"
  /\ pressed' = {}
  /\ UNCHANGED << state, errorMessage, mangaList, currentMangaIndex,
                  dataValue, updateRequested >>
  /\ LoopFrame

\* handleBrowsingList(): state = LOAD_PAGE; requestUpdate()
HandleBrowsingList_ConfirmWrite ==
  /\ pcLoop = "browsing_confirm_write"
  /\ state' = "LOAD_PAGE"
  /\ updateRequested' = TRUE
  /\ pcLoop' = "idle"
  /\ UNCHANGED << errorMessage, mangaList, currentMangaIndex, dataValue, pressed >>
  /\ LoopFrame

\* Mutant of HandleLoadPage_Test: the selection test dropped.
HandleLoadPage_Test_Unchecked ==
  /\ pcLoop = "load_page"
  /\ pcLoop' = "load_page_send"
  /\ UNCHANGED << state, errorMessage, mangaList, currentMangaIndex, dataValue,
                  pressed, updateRequested >>
  /\ LoopFrame

\* handleLoadPage(): the selection test; errorMessage = "Invalid manga selection"
HandleLoadPage_Test ==
  /\ pcLoop = "load_page"
  /\ IF ValidSelection(currentMangaIndex, mangaList)
       THEN /\ pcLoop' = "load_page_send"
            /\ UNCHANGED errorMessage
       ELSE /\ pcLoop' = "load_page_error"
            /\ errorMessage' = "Invalid manga selection"
  /\ UNCHANGED << state, mangaList, currentMangaIndex, dataValue, pressed,
                  updateRequested >>
  /\ LoopFrame

\* [CMD][mangaId length][mangaId][page number MSB][page number LSB]
EncodeRequestPage(mangaId) ==
  << REQUEST_PAGE, Len(mangaId) % 256 >> \o mangaId \o << 0, 0 >>

\* The ids a read outside the vector can yield: a stale one or an empty string.
StaleIds == { << >> } \cup { e.id : e \in PeerEntries }

\* handleLoadPage(): mangaId = mangaList[currentMangaIndex].id; build the
\* request; if (dataCharacteristic) { setValue; notify } else errorMessage = ...
\* The index was tested one step earlier: when a callback has since emptied the
\* list or moved the index, operator[] reads outside the vector, and the copy
\* yields some id or stops the device.
HandleLoadPage_Send ==
  /\ pcLoop = "load_page_send"
  /\ \E mangaId \in IF ValidSelection(currentMangaIndex, mangaList)
                       THEN { mangaList[currentMangaIndex + 1].id }
                       ELSE StaleIds :
       /\ IF dataCharacteristic
            THEN /\ dataValue' = EncodeRequestPage(mangaId)
                 /\ pcLoop' \in { "load_page_state" } \cup
                       (IF ValidSelection(currentMangaIndex, mangaList)
                          THEN {} ELSE { "crashed" })
                 /\ UNCHANGED errorMessage
            ELSE /\ errorMessage' = "BLE not initialized"
                 /\ pcLoop' \in { "load_page_error" } \cup
                       (IF ValidSelection(currentMangaIndex, mangaList)
                          THEN {} ELSE { "crashed" })
                 /\ UNCHANGED dataValue
  /\ UNCHANGED << state, mangaList, currentMangaIndex, pressed, updateRequested >>
  /\ LoopFrame

\* handleLoadPage(): state = RECEIVING_PAGE (or ERROR); requestUpdate()
HandleLoadPage_State ==
  /\ pcLoop \in { "load_page_state", "load_page_error" }
  /\ state' = IF pcLoop = "load_page_state" THEN "RECEIVING_PAGE" ELSE "ERROR"
  /\ updateRequested' = TRUE
  /\ pcLoop' = "idle"
  /\ UNCHANGED << errorMessage, mangaList, currentMangaIndex, dataValue, pressed >>
  /\ LoopFrame

\* Mutant of DisplayTarget: Back assigns BROWSING_LIST without returning, so
\* the prev/next tests that follow overwrite it.
DisplayTarget_BackFallsThrough(p, current) ==
  IF p \cap { "Left", "PageBack", "Right", "PageForward" } # {}
    THEN "LOAD_PAGE"
    ELSE IF "Back" \in p THEN "BROWSING_LIST" ELSE current

\* The state handleDisplayPage leaves behind for the buttons p: Back returns
\* early; otherwise each of the two remaining tests may assign LOAD_PAGE.
DisplayTarget(p, current) ==
  IF "Back" \in p THEN "BROWSING_LIST"
  ELSE IF p \cap { "Left", "PageBack", "Right", "PageForward" } # {}
         THEN "LOAD_PAGE"
         ELSE current

\* handleDisplayPage(): it reads no shared field and every assignment it makes
\* after the first stores the same value, so the handler is one step.
HandleDisplayPage(p) ==
  /\ pcLoop = "display"
  /\ state' = DisplayTarget(p, state)
  /\ updateRequested' = (updateRequested \/ p # {})
  /\ pcLoop' = "idle"
  /\ UNCHANGED << errorMessage, mangaList, currentMangaIndex, dataValue, pressed >>
  /\ LoopFrame

\* handleError(): if (wasPressed(Back) || wasPressed(Confirm)) onGoHome()
HandleError(p) ==
  /\ pcLoop = "error"
  /\ IF p # {}
       THEN GoHome
       ELSE /\ pcLoop' = "idle"
            /\ UNCHANGED << state, errorMessage, mangaList, currentMangaIndex,
                            dataValue, pressed, updateRequested >>
            /\ LoopFrame

\* The user's input for a tick dispatched in state s.
Inputs(s) == SUBSET ButtonsReadIn(s)

\* -------------------------------------------------------- NimBLE host task
\* The device still runs (a null or out-of-range access has not stopped it).
Running == pcLoop # "crashed" /\ pcRender # "crashed"

\* What a callback step leaves alone besides the session fields.
BleFrame ==
  UNCHANGED << ble, dataValue, active, pcLoop, pressed, pcRender >>

\* ServerCallbacks::onConnect: updateConnParams(); requestUpdate().  The server
\* counts the peer before it calls back.
OnConnect ==
  /\ active /\ Running
  /\ pcBle = "idle"
  /\ ~connected
  /\ connected' = TRUE
  /\ updateRequested' = TRUE
  /\ UNCHANGED << state, errorMessage, mangaList, currentMangaIndex, pcBle,
                  history >>
  /\ BleFrame

\* Mutant of OnDisconnect: the callback also drops the catalog and selection.
OnDisconnect_Resetting ==
  /\ active /\ Running
  /\ pcBle = "idle"
  /\ connected
  /\ connected' = FALSE
  /\ state' = "WAITING_FOR_APP"
  /\ mangaList' = << >>
  /\ currentMangaIndex' = -1
  /\ updateRequested' = TRUE
  /\ listing' = "off"
  /\ UNCHANGED << errorMessage, pcBle, expected, ble, dataValue, active,
                  pcLoop, pressed, pcRender >>

\* ServerCallbacks::onDisconnect: state = WAITING_FOR_APP; requestUpdate()
OnDisconnect ==
  /\ active /\ Running
  /\ pcBle = "idle"
  /\ connected
  /\ connected' = FALSE
  /\ state' = "WAITING_FOR_APP"
  /\ updateRequested' = TRUE
  /\ listing' = "off"
  /\ UNCHANGED << errorMessage, mangaList, currentMangaIndex, pcBle, expected >>
  /\ BleFrame

\* Mutant of DecodeListEntry: the title is taken from the title-length byte on.
DecodeListEntry_TitleOffByOne(data) ==
  LET length == Len(data) IN
  IF length >= 3
    THEN LET idLen == data[2] IN
         IF length >= 2 + idLen + 1
           THEN LET titleLen == data[2 + idLen + 1]
                IN  IF length >= 2 + idLen + 1 + titleLen
                      THEN << [ id |-> SubSeq(data, 3, 2 + idLen),
                                title |-> SubSeq(data, 2 + idLen + 1,
                                                 2 + idLen + titleLen) ] >>
                      ELSE << >>
           ELSE << >>
    ELSE << >>

\* Mutant of DecodeListEntry: a title longer than the rest of the frame is cut
\* to the bytes present instead of dropping the frame.
DecodeListEntry_TruncatingTitle(data) ==
  LET length == Len(data) IN
  IF length >= 3
    THEN LET idLen == data[2] IN
         IF length >= 2 + idLen + 1
           THEN LET titleLen == data[2 + idLen + 1]
                    avail == length - (2 + idLen + 1)
                IN  << [ id |-> SubSeq(data, 3, 2 + idLen),
                         title |-> SubSeq(data, 2 + idLen + 2,
                                          2 + idLen + 1 +
                                            (IF titleLen <= avail THEN titleLen ELSE avail)) ] >>
           ELSE << >>
    ELSE << >>

\* The LIST_ENTRY branch of onWrite: the entries it appends for a frame
\* ([status][id_length][id...][title_length][title...]), none or one.
DecodeListEntry(data) ==
  LET length == Len(data) IN
  IF length >= 3
    THEN LET idLen == At(data, 1) IN
         IF length >= 2 + idLen + 1
           THEN LET id == Bytes(data, 2, idLen)
                    titleLen == At(data, 2 + idLen)
                IN  IF length >= 2 + idLen + 1 + titleLen
                      THEN << [ id |-> id,
                                title |-> Bytes(data, 2 + idLen + 1, titleLen) ] >>
                      ELSE << >>
           ELSE << >>
    ELSE << >>

\* Mutant of ReadIndices: the title is read through the byte after its last.
ReadIndices_TitleOneBeyond(data) ==
  LET length == Len(data) IN
  IF length = 0 THEN {}
  ELSE { 0 } \cup
    CASE At(data, 0) = LIST_ENTRY ->
           IF length >= 3
             THEN { 1 } \cup
                  LET idLen == At(data, 1) IN
                  IF length >= 2 + idLen + 1
                    THEN (2 .. (2 + idLen - 1)) \cup { 2 + idLen } \cup
                         LET titleLen == At(data, 2 + idLen) IN
                         IF length >= 2 + idLen + 1 + titleLen
                           THEN (2 + idLen + 1) .. (2 + idLen + 1 + titleLen)
                           ELSE {}
                    ELSE {}
             ELSE {}
      [] At(data, 0) = PAGE_DATA ->
           IF length > 5 THEN 1 .. 4 ELSE {}
      [] OTHER -> {}

\* The 0-based indices of data that onWrite reads: data[0] after the length
\* test; in the LIST_ENTRY branch data[1], the idLen bytes from data[2],
\* data[2 + idLen] and the titleLen bytes from data[2 + idLen + 1], each behind
\* its length test; in the PAGE_DATA branch data[1..4] (chunkData only points
\* at data[5]; nothing is read through it).
ReadIndices(data) ==
  LET length == Len(data) IN
  IF length = 0 THEN {}
  ELSE { 0 } \cup
    CASE At(data, 0) = LIST_ENTRY ->
           IF length >= 3
             THEN { 1 } \cup
                  LET idLen == At(data, 1) IN
                  IF length >= 2 + idLen + 1
                    THEN (2 .. (2 + idLen - 1)) \cup { 2 + idLen } \cup
                         LET titleLen == At(data, 2 + idLen) IN
                         IF length >= 2 + idLen + 1 + titleLen
                           THEN (2 + idLen + 1) .. (2 + idLen + titleLen)
                           ELSE {}
                    ELSE {}
             ELSE {}
      [] At(data, 0) = PAGE_DATA ->
           IF length > 5 THEN 1 .. 4 ELSE {}
      [] OTHER -> {}

\* Mutant of InitialCursor: the emptiness test dropped.
InitialCursor_AlwaysFirst(list) == 0

\* The LIST_END branch: currentMangaIndex = mangaList.empty() ? -1 : 0
InitialCursor(list) == IF list = << >> THEN -1 ELSE 0

\* The PAGE_DATA branch's locals: offset = data[1..4] big-endian, chunkData =
\* &data[5], chunkSize = length - 5.
PageChunk(data) ==
  [ offset |-> ((At(data, 1) * 256 + At(data, 2)) * 256 + At(data, 3)) * 256
                 + At(data, 4),
    chunk  |-> Bytes(data, 5, Len(data) - 5) ]

\* The page bytes the activity holds after the PAGE_DATA branch, given those
\* it held before: the branch logs offset and chunkSize and stores nothing
\* ("TODO: Store chunk in page buffer at offset").
PageBufferAfter(buffer, data) == buffer

\* Page bytes held before a chunk arrives: none (the activity has no page
\* buffer), or a zeroed page of up to MaxPage bytes.
PageBuffers == { [ i \in 1..n |-> 0 ] : n \in 0..MaxPage }

\* History of the listing exchange: REQUEST_LIST, then LIST_START, then
\* well-formed LIST_ENTRY frames, then LIST_END, and nothing else.
ListingAfter(data) ==
  IF data = << >> THEN "off"
  ELSE CASE listing = "requested" /\ At(data, 0) = LIST_START -> "started"
         [] listing = "started" /\ At(data, 0) = LIST_ENTRY
              /\ DecodeListEntry(data) # << >> -> "started"
         [] listing = "started" /\ At(data, 0) = LIST_END -> "ended"
         [] OTHER -> "off"

ExpectedAfter(data) ==
  IF ListingAfter(data) = "started" /\ listing = "started"
    THEN expected \o DecodeListEntry(data)
    ELSE IF ListingAfter(data) = "ended" THEN expected ELSE << >>

\* RequestCallbacks::onWrite, up to its first write of state: the length test
\* and the switch on data[0].
OnWrite(data) ==
  /\ active /\ Running
  /\ pcBle = "idle"
  /\ connected
  /\ cmdCharacteristic
  /\ listing' = ListingAfter(data)
  /\ expected' = ExpectedAfter(data)
  /\ IF Len(data) = 0
       THEN UNCHANGED << state, errorMessage, mangaList, currentMangaIndex,
                         pcBle, updateRequested >>
       ELSE LET status == At(data, 0) IN
         CASE status = LIST_START ->
                /\ mangaList' = << >>
                /\ UNCHANGED << state, errorMessage, currentMangaIndex, pcBle,
                                updateRequested >>
           [] status = LIST_ENTRY ->
                /\ mangaList' = mangaList \o DecodeListEntry(data)
                /\ Len(mangaList') <= MaxCatalog
                /\ UNCHANGED << state, errorMessage, currentMangaIndex, pcBle,
                                updateRequested >>
           [] status = LIST_END ->
                /\ currentMangaIndex' = InitialCursor(mangaList)
                /\ pcBle' = "list_end_state"
                /\ UNCHANGED << state, errorMessage, mangaList, updateRequested >>
           [] status = PAGE_END ->
                /\ state' = "DISPLAY_PAGE"
                /\ updateRequested' = TRUE
                /\ UNCHANGED << errorMessage, mangaList, currentMangaIndex, pcBle >>
           [] status = STATUS_ERROR ->
                /\ errorMessage' = "Companion app error"
                /\ pcBle' = "error_state"
                /\ UNCHANGED << state, mangaList, currentMangaIndex,
                                updateRequested >>
           [] OTHER ->
                \* PAGE_START, PAGE_DATA (the chunk is only logged), OK, unknown
                UNCHANGED << state, errorMessage, mangaList, currentMangaIndex,
                             pcBle, updateRequested >>
  /\ UNCHANGED connected
  /\ BleFrame

\* onWrite, LIST_END branch: state = BROWSING_LIST; requestUpdate()
OnWrite_ListEndState ==
  /\ Running
  /\ pcBle = "list_end_state"
  /\ state' = "BROWSING_LIST"
  /\ updateRequested' = TRUE
  /\ pcBle' = "idle"
  /\ UNCHANGED << errorMessage, mangaList, currentMangaIndex, connected, history >>
  /\ BleFrame

\* onWrite, ERROR branch: state = ERROR; requestUpdate()
OnWrite_ErrorState ==
  /\ Running
  /\ pcBle = "error_state"
  /\ state' = "ERROR"
  /\ updateRequested' = TRUE
  /\ pcBle' = "idle"
  /\ UNCHANGED << errorMessage, mangaList, currentMangaIndex, connected, history >>
  /\ BleFrame

\* A frame arrives on the command characteristic.
FrameReceived == \E data \in Frames : OnWrite(data)

\* ---------------------------------------------------------------- render
\* render(), case LOAD_PAGE / RECEIVING_PAGE: the guard under which it reads
\* mangaList[currentMangaIndex].title:
\* !mangaList.empty() && currentMangaIndex >= 0
RenderReadsTitle ==
  /\ state \in { "LOAD_PAGE", "RECEIVING_PAGE" }
  /\ mangaList # << >>
  /\ currentMangaIndex >= 0

\* render(): the requested redraw happens; it reads the session fields and
\* writes none.  A title read outside the vector draws some bytes or stops the
\* device.
Render ==
  /\ active /\ Running
  /\ updateRequested
  /\ updateRequested' = FALSE
  /\ pcRender' \in { pcRender } \cup
        (IF RenderReadsTitle /\ currentMangaIndex >= Len(mangaList)
           THEN { "crashed" } ELSE {})
  /\ UNCHANGED << state, errorMessage, mangaList, currentMangaIndex, ble,
                  dataValue, connected, active, pcLoop, pressed, pcBle, history >>

\* A step of loop(): the dispatch or a step of the selected handler.
LoopStep ==
  \/ LoopDispatch
  \/ HandleCheckCompanionApp_Read
  \/ HandleCheckCompanionApp_Write
  \/ HandleWaitForCompanionApp_Read
  \/ HandleWaitForCompanionApp_Write
  \/ HandleLoadList_Clear
  \/ HandleLoadList_Send
  \/ HandleLoadList_State
  \/ HandleReceive
  \/ \E p \in Inputs("BROWSING_LIST") : HandleBrowsingList_Back(p)
  \/ HandleBrowsingList_UpTest
  \/ HandleBrowsingList_UpWrite
  \/ HandleBrowsingList_DownTest
  \/ HandleBrowsingList_DownWrite
  \/ HandleBrowsingList_ConfirmTest
  \/ HandleBrowsingList_ConfirmWrite
  \/ HandleLoadPage_Test
  \/ HandleLoadPage_Send
  \/ HandleLoadPage_State
  \/ \E p \in Inputs("DISPLAY_PAGE") : HandleDisplayPage(p)
  \/ \E p \in Inputs("ERROR") : HandleError(p)

\* A step of a transport callback.
CallbackStep ==
  \/ OnConnect
  \/ OnDisconnect
  \/ FrameReceived
  \/ OnWrite_ListEndState
  \/ OnWrite_ErrorState

Next ==
  \/ OnEnter
  \/ LoopStep
  \/ CallbackStep
  \/ Render

Spec == Init /\ [][Next]_vars

\* ------------------------------------------------- the LIST_ENTRY decoder
\* The session waiting for a listing: entered, peer connected, REQUEST_LIST
\* notified, state RECEIVING_LIST, LIST_START received.
InitDecode ==
  /\ state = "RECEIVING_LIST"
  /\ errorMessage = ""
  /\ mangaList = << >>
  /\ currentMangaIndex = -1
  /\ bleServer = TRUE
  /\ cmdCharacteristic = TRUE
  /\ dataCharacteristic = TRUE
  /\ dataValue = << REQUEST_LIST >>
  /\ connected = TRUE
  /\ active = TRUE
  /\ pcLoop = "idle"
  /\ pressed = {}
  /\ pcBle = "idle"
  /\ pcRender = "idle"
  /\ updateRequested = TRUE
  /\ listing = "started"
  /\ expected = << >>

\* The peer writes any LIST_ENTRY frame, well-formed or not.
ListEntryReceived == \E data \in ListEntryFrames : OnWrite(data)

\* onWrite applied to every LIST_ENTRY frame over every catalog it builds.
SpecDecode == InitDecode /\ [][ListEntryReceived]_vars

\* The peer writes any frame of the read-index model.
DecoderFrameReceived == \E data \in DecoderFrames : OnWrite(data)

\* onWrite applied to every LIST_ENTRY and PAGE_DATA frame, over every catalog
\* it builds.
SpecRead == InitDecode /\ [][DecoderFrameReceived]_vars

\* =================================================================== claims

\* C1.  The transport callbacks never write SessionState, Catalog or
\* SelectionCursor: every step of onConnect, onDisconnect and onWrite leaves
\* state, mangaList and currentMangaIndex as they were.
C1_CallbacksLeaveSession == [][CallbackStep => UNCHANGED session]_vars

\* C2.  Every row of the transition table leads to the listed state: the
\* connection test of CHECK_COMPANION_APP selects LOAD_LIST or WAITING_FOR_APP;
\* LOAD_LIST notifies REQUEST_LIST and goes to RECEIVING_LIST, or to ERROR
\* without a transport; list-end gives BROWSING_LIST and a peer error ERROR;
\* confirm on a valid selection gives LOAD_PAGE; LOAD_PAGE goes to ERROR on
\* an invalid selection and to RECEIVING_PAGE after the send; page-end gives
\* DISPLAY_PAGE; DISPLAY_PAGE goes to BROWSING_LIST on back and otherwise to
\* LOAD_PAGE on prev/next.
C2_TransitionTable ==
  [][ /\ (pcLoop = "check" /\ pcLoop' # pcLoop)
           => pcLoop' = IF connected THEN "check_conn" ELSE "check_noconn"
      /\ (pcLoop = "check_conn" /\ pcLoop' # pcLoop) => state' = "LOAD_LIST"
      /\ (pcLoop = "check_noconn" /\ pcLoop' # pcLoop) => state' = "WAITING_FOR_APP"
      /\ (pcLoop = "load_list_send" /\ pcLoop' # pcLoop)
           => IF dataCharacteristic
                THEN dataValue' = << REQUEST_LIST >> /\ pcLoop' = "load_list_state"
                ELSE pcLoop' = "load_list_error"
      /\ (pcLoop = "load_list_state" /\ pcLoop' # pcLoop) => state' = "RECEIVING_LIST"
      /\ (pcLoop = "load_list_error" /\ pcLoop' # pcLoop) => state' = "ERROR"
      /\ OnWrite(<< LIST_END >>) => pcBle' = "list_end_state"
      /\ (pcBle = "list_end_state" /\ pcBle' # pcBle) => state' = "BROWSING_LIST"
      /\ OnWrite(<< STATUS_ERROR >>) => pcBle' = "error_state"
      /\ (pcBle = "error_state" /\ pcBle' # pcBle) => state' = "ERROR"
      /\ (pcLoop = "browsing_confirm" /\ pcLoop' # pcLoop)
           => pcLoop' = IF "Confirm" \in pressed
                           /\ currentMangaIndex \in 0..(Len(mangaList) - 1)
                          THEN "browsing_confirm_write" ELSE "idle"
      /\ (pcLoop = "browsing_confirm_write" /\ pcLoop' # pcLoop)
           => state' = "LOAD_PAGE"
      /\ (pcLoop = "load_page" /\ pcLoop' # pcLoop)
           => pcLoop' = IF currentMangaIndex \in 0..(Len(mangaList) - 1)
                          THEN "load_page_send" ELSE "load_page_error"
      /\ (pcLoop = "load_page_error" /\ pcLoop' # pcLoop) => state' = "ERROR"
      /\ (pcLoop = "load_page_state" /\ pcLoop' # pcLoop) => state' = "RECEIVING_PAGE"
      /\ OnWrite(<< PAGE_END >>) => state' = "DISPLAY_PAGE"
      /\ \A p \in Inputs("DISPLAY_PAGE") :
           HandleDisplayPage(p)
             => /\ "Back" \in p => state' = "BROWSING_LIST"
                /\ ("Back" \notin p /\ p # {}) => state' = "LOAD_PAGE"
    ]_vars

\* C2 witness: a page was requested for a catalog entry and its page-end has
\* been handled, so the session went the whole way down the table.
C2_Witness ==
  /\ state = "DISPLAY_PAGE"
  /\ pcLoop = "idle" /\ pcBle = "idle"
  /\ mangaList # << >>
  /\ dataValue # << >> /\ dataValue[1] = REQUEST_PAGE

\* C3.  A trigger the table does not list for the current state leaves state
\* unchanged: the LIST_END branch outside RECEIVING_LIST and the PAGE_END
\* branch outside RECEIVING_PAGE do not change state.
C3_UnlistedTriggerLeavesState ==
  [][ /\ (pcBle = "list_end_state" /\ pcBle' # pcBle /\ state # "RECEIVING_LIST")
           => state' = state
      /\ (OnWrite(<< PAGE_END >>) /\ state # "RECEIVING_PAGE") => state' = state
    ]_vars

\* C4.  Between session entry and exit, every step that changes mangaList or
\* currentMangaIndex starts in RECEIVING_LIST or BROWSING_LIST.
C4_CatalogCursorOnlyInListStates ==
  [][ ( /\ active /\ active'
        /\ (mangaList' # mangaList \/ currentMangaIndex' # currentMangaIndex) )
        => state \in { "RECEIVING_LIST", "BROWSING_LIST" }
    ]_vars

\* The cursor is valid for the catalog: in [-1, len-1], and -1 only when empty.
CursorValid ==
  /\ currentMangaIndex >= -1
  /\ currentMangaIndex <= Len(mangaList) - 1
  /\ (currentMangaIndex = -1 => mangaList = << >>)

\* C5.  At the boundary of every state transition the cursor is valid for the
\* catalog.
C5_CursorValidAtTransitions == [][state' # state => CursorValid']_vars

\* C6.  After REQUEST_LIST is notified and the peer delivers LIST_START, N
\* well-formed LIST_ENTRY frames and LIST_END, once both tasks are through
\* with them the catalog holds those entries in order, the cursor is 0 for
\* N >= 1 and the state is BROWSING_LIST.
C6_ListingScenario ==
  (listing = "ended" /\ pcBle = "idle" /\ pcLoop = "idle")
    => /\ mangaList = expected
       /\ (expected # << >> => currentMangaIndex = 0)
       /\ state = "BROWSING_LIST"

\* C7.  A peer-disconnected event sets state to WAITING_FOR_APP and leaves
\* the catalog and the cursor as they were.
C7_DisconnectKeepsCatalog ==
  [][OnDisconnect
       => /\ state' = "WAITING_FOR_APP"
          /\ mangaList' = mangaList
          /\ currentMangaIndex' = currentMangaIndex]_vars

\* C7 witness: the peer is gone, the session waits, and the listing received
\* before the disconnect is still held with its cursor.
C7_Witness ==
  /\ active /\ ~connected
  /\ state = "WAITING_FOR_APP"
  /\ Len(mangaList) = 2
  /\ currentMangaIndex = 1

\* C8.  Once state is ERROR it stays ERROR until the user's back or confirm
\* exits the session.
C8_ErrorUntilDismissed ==
  [][(active /\ state = "ERROR") => (state' = "ERROR" \/ ~active')]_vars

\* C9 (as claimed).  With "payload" the bytes after the tag: a LIST_ENTRY frame
\* whose payload length is at least 2+L1+1+L2 appends exactly the entry of its
\* id and title byte ranges, and a frame with a shorter payload appends nothing.
EntryComplete(data, n) ==
  /\ Len(data) >= 2
  /\ Len(data) >= 3 + data[2]
  /\ n >= 2 + data[2] + 1 + data[3 + data[2]]

\* The L1 bytes after the id-length byte, the L2 bytes after the title-length byte.
EntryIn(data) ==
  LET L1 == data[2]
      L2 == data[3 + L1]
  IN  [ id |-> SubSeq(data, 3, 2 + L1), title |-> SubSeq(data, 4 + L1, 3 + L1 + L2) ]

C9_DecodeByPayloadLength ==
  [][ \A data \in ListEntryFrames :
        OnWrite(data)
          => mangaList' = IF EntryComplete(data, Len(data) - 1)
                            THEN Append(mangaList, EntryIn(data))
                            ELSE mangaList
    ]_vars

\* C9 (amended).  A LIST_ENTRY frame whose length, tag byte included, is at
\* least 2+L1+1+L2 appends exactly the entry of its id and title byte ranges,
\* and a shorter frame appends nothing.
C9_DecodeByFrameLength ==
  [][ \A data \in ListEntryFrames :
        OnWrite(data)
          => mangaList' = IF EntryComplete(data, Len(data))
                            THEN Append(mangaList, EntryIn(data))
                            ELSE mangaList
    ]_vars

\* C9 witness: an entry with a non-empty id and a non-empty title was appended
\* behind an earlier one.
C9_Witness ==
  /\ Len(mangaList) = 2
  /\ mangaList[2] = [ id |-> << 1 >>, title |-> << 0 >> ]

\* C10.  A LIST_END frame sets the cursor to 0 when the catalog holds an entry
\* and to -1 when it is empty, and then sets state to BROWSING_LIST.
C10_ListEndCursor ==
  [][ /\ OnWrite(<< LIST_END >>)
           => /\ currentMangaIndex' = IF Len(mangaList) >= 1 THEN 0 ELSE -1
              /\ pcBle' = "list_end_state"
      /\ OnWrite_ListEndState => state' = "BROWSING_LIST"
    ]_vars

\* C10 witness: a listing of no entries has ended; the cursor is -1.
C10_Witness ==
  /\ listing = "ended" /\ pcBle = "idle"
  /\ mangaList = << >>
  /\ currentMangaIndex = -1
  /\ state = "BROWSING_LIST"

\* C11.  The Up and Down steps of handleBrowsingList never move the cursor
\* outside [0, len(mangaList)-1]: whenever one of them changes
\* currentMangaIndex, the new value indexes an entry of the catalog.
C11_UpDownStayInRange ==
  [][ ( /\ pcLoop \in { "browsing_up_write", "browsing_down_write" }
        /\ currentMangaIndex' # currentMangaIndex )
        => /\ currentMangaIndex' >= 0
           /\ currentMangaIndex' <= Len(mangaList') - 1
    ]_vars

\* C12 (as claimed).  When confirm is pressed in BROWSING_LIST with the cursor
\* out of range or the catalog empty, the tick ends in ERROR with an error
\* message set.
C12_ConfirmInvalidGivesError ==
  [][ ( /\ pcLoop = "browsing_confirm"
        /\ "Confirm" \in pressed
        /\ ~ (currentMangaIndex >= 0 /\ currentMangaIndex < Len(mangaList))
        /\ pcLoop' = "idle" )
        => (state' = "ERROR" /\ errorMessage' # "")
    ]_vars

\* C12 (amended).  An invalid selection found by LOAD_PAGE is fatal to the
\* session: handleLoadPage sets the error message and then state ERROR, and
\* sends nothing; confirm pressed in BROWSING_LIST on an invalid selection is
\* ignored (state and message stay as they are).
C12_InvalidSelectionInLoadPage ==
  [][ /\ ( /\ pcLoop = "load_page" /\ pcLoop' # pcLoop
           /\ ~ (currentMangaIndex >= 0 /\ currentMangaIndex < Len(mangaList)) )
           => /\ errorMessage' = "Invalid manga selection"
              /\ pcLoop' = "load_page_error"
              /\ dataValue' = dataValue
      /\ (pcLoop = "load_page_error" /\ pcLoop' # pcLoop)
           => (state' = "ERROR" /\ errorMessage' # "" /\ dataValue' = dataValue)
      /\ ( /\ pcLoop = "browsing_confirm" /\ pcLoop' # pcLoop
           /\ ~ (currentMangaIndex >= 0 /\ currentMangaIndex < Len(mangaList)) )
           => /\ pcLoop' = "idle"
              /\ state' = state
              /\ errorMessage' = errorMessage
    ]_vars

\* C12 witness: LOAD_PAGE found the selection invalid and the session is in
\* ERROR with that message.
C12_Witness ==
  /\ active
  /\ state = "ERROR"
  /\ errorMessage = "Invalid manga selection"
  /\ pcLoop = "idle"

\* The frames C13 speaks of: empty, with a tag that no branch recognizes (OK
\* included), a LIST_ENTRY missing bytes its length fields declare, or a
\* PAGE_DATA whose payload is no longer than the 4-byte offset.
MalformedOrUnknown(data) ==
  \/ data = << >>
  \/ /\ data # << >>
     /\ \/ data[1] \notin { STATUS_ERROR, LIST_START, LIST_ENTRY, LIST_END,
                            PAGE_START, PAGE_DATA, PAGE_END }
        \/ data[1] = LIST_ENTRY /\ ~ EntryComplete(data, Len(data))
        \/ data[1] = PAGE_DATA /\ Len(data) - 1 <= 4

\* C13.  A frame that is empty, carries an unrecognized tag, or is too short
\* for its tag is discarded: state, mangaList, currentMangaIndex and
\* errorMessage are left as they were.  (Stated contrapositively: a step that
\* changes one of the four is not onWrite of such a frame; onWrite steps start
\* at pcBle = "idle" and leave pcLoop alone.)
C13_MalformedFrameDropped ==
  [][ \/ UNCHANGED << state, mangaList, currentMangaIndex, errorMessage >>
      \/ pcLoop' # pcLoop
      \/ pcBle # "idle"
      \/ \A data \in Frames : MalformedOrUnknown(data) => ~ OnWrite(data)
    ]_vars

\* C13 witness: a listing had started and delivered an entry when a frame
\* outside the exchange arrived; the session still waits with that entry.
C13_Witness ==
  /\ active /\ connected
  /\ state = "RECEIVING_LIST"
  /\ listing = "off"
  /\ Len(mangaList) = 1
  /\ currentMangaIndex = -1
  /\ pcBle = "idle"

\* C14.  A PAGE_DATA chunk is written into the page buffer at its offset (so
\* that chunks delivered in either order give the same buffer): after onWrite
\* of a PAGE_DATA frame with a chunk, the bytes kept for the page hold the
\* chunk at its offset, whatever was kept before.
C14_ChunkWrittenAtOffset ==
  [][ \/ pcLoop' # pcLoop
      \/ pcBle # "idle"
      \/ \A data \in Frames :
           (Len(data) > 5 /\ data[1] = PAGE_DATA /\ OnWrite(data))
             => LET c == PageChunk(data) IN
                \A buffer \in PageBuffers :
                  LET kept == PageBufferAfter(buffer, data) IN
                  /\ Len(kept) >= c.offset + Len(c.chunk)
                  /\ \A i \in 1..Len(c.chunk) : kept[c.offset + i] = c.chunk[i]
    ]_vars

\* C15.  requestUpdate is emitted on every state transition and on every
\* mutation of the catalog or the cursor: a step that changes state has
\* requested an update when it ends, and so has a step that changes mangaList
\* or currentMangaIndex inside the session, unless its handler or callback is
\* still to reach its requestUpdate() call (handleLoadList after the clear,
\* the LIST_END branch after the cursor write).
C15_UpdateOnEveryMutation ==
  [][ /\ (state' # state) => updateRequested'
      /\ ( /\ active /\ active'
           /\ (mangaList' # mangaList \/ currentMangaIndex' # currentMangaIndex) )
           => \/ updateRequested'
              \/ pcLoop' = "load_list_send"
              \/ pcBle' = "list_end_state"
    ]_vars

\* C16.  The catalog is cleared when LOAD_LIST starts a listing request and on
\* LIST_START, and is append-only during a receive cycle (after the request's
\* LIST_START up to its LIST_END): no entry is removed or changed, so that
\* after LIST_END the catalog holds exactly the entries received since the
\* clear.
C16_ClearedThenAppendOnly ==
  [][ /\ (pcLoop = "load_list" /\ pcLoop' # pcLoop) => mangaList' = << >>
      /\ (pcLoop' = pcLoop /\ pcBle = "idle" /\ OnWrite(<< LIST_START >>))
           => mangaList' = << >>
      /\ (listing = "started" /\ listing' \in { "started", "ended" })
           => /\ Len(mangaList') >= Len(mangaList)
              /\ SubSeq(mangaList', 1, Len(mangaList)) = mangaList
      /\ (listing' = "ended") => mangaList' = expected'
    ]_vars

\* C16 witness: a requested listing of two different entries has ended and
\* the catalog holds exactly the two, in order.
C16_Witness ==
  /\ listing = "ended"
  /\ Len(expected) = 2
  /\ mangaList = expected
  /\ mangaList[1] # mangaList[2]

\* C17.  The REQUEST_PAGE command handleLoadPage sends is tag 0x02, one byte
\* holding the id length, the id bytes of the catalog entry at the cursor and
\* a 2-byte big-endian page number (0): whenever the send step notifies a
\* request, the cursor selects an entry, the request is that entry's encoding
\* and the length byte is the id's true length (at most 255).
C17_RequestPageEncoding ==
  [][ (pcLoop = "load_page_send" /\ pcLoop' = "load_page_state")
        => /\ currentMangaIndex >= 0
           /\ currentMangaIndex < Len(mangaList)
           /\ LET id == mangaList[currentMangaIndex + 1].id IN
              /\ Len(id) <= 255
              /\ dataValue' = << 2, Len(id) >> \o id \o << 0, 0 >>
    ]_vars

\* C18.  The error message is set whenever state is ERROR, and onEnter clears
\* it: in every reachable state with state = ERROR errorMessage is non-empty,
\* and right after onEnter the message is empty and state is
\* CHECK_COMPANION_APP.
C18_PendingErrorSetAndCleared ==
  /\ [](state = "ERROR" => errorMessage # "")
  /\ [][ (~ active /\ active')
           => (errorMessage' = "" /\ state' = "CHECK_COMPANION_APP") ]_vars

\* C18 witness: the session was left from ERROR; state and message are still
\* those of the peer's error, for the next onEnter to clear.
C18_Witness ==
  /\ ~ active
  /\ state = "ERROR"
  /\ errorMessage = "Companion app error"

\* ------------------------------------------------------------- scheduling
\* The polling loop keeps ticking (the framework calls loop() again and a
\* handler runs to its end), and a callback that has started returns.
SpecLive ==
  /\ Init
  /\ [][Next]_vars
  /\ WF_vars(LoopStep)
  /\ WF_vars(OnWrite_ListEndState)
  /\ WF_vars(OnWrite_ErrorState)

\* C19.  If the session is in WAITING_FOR_APP with a peer connected (and the
\* characteristics exist, so that the send succeeds), then, unless the peer
\* disconnects, the session is left or an error takes it to ERROR, the session
\* eventually is in RECEIVING_LIST with REQUEST_LIST as the notified value.
C19_WaitLeadsToReceivingList ==
  (active /\ state = "WAITING_FOR_APP" /\ connected /\ cmdCharacteristic)
    ~> \/ ~ connected
       \/ ~ active
       \/ state = "ERROR"
       \/ (state = "RECEIVING_LIST" /\ dataValue = << REQUEST_LIST >>)

\* C20.  Input handling in one tick is first-match: when Back is pressed
\* together with other buttons only the back transition is taken.  In
\* BROWSING_LIST the tick exits the session at once, with the cursor where it
\* was and state not LOAD_PAGE; in DISPLAY_PAGE the tick ends in
\* BROWSING_LIST, not LOAD_PAGE.
C20_BackFirst ==
  [][ /\ pcLoop = "browsing"
           => \A p \in Inputs("BROWSING_LIST") :
                ("Back" \in p /\ HandleBrowsingList_Back(p))
                  => /\ ~ active' /\ pcLoop' = "idle"
                     /\ currentMangaIndex' = currentMangaIndex
                     /\ state' = state
      /\ pcLoop = "display"
           => \A p \in Inputs("DISPLAY_PAGE") :
                ("Back" \in p /\ HandleDisplayPage(p))
                  => (state' = "BROWSING_LIST" /\ pcLoop' = "idle")
    ]_vars

\* C20 witness: the session was left from BROWSING_LIST with the cursor on the
\* second entry: Back ended that tick, whatever else was pressed.
C20_Witness ==
  /\ ~ active
  /\ state = "BROWSING_LIST"
  /\ currentMangaIndex = 1
  /\ pcLoop = "idle"

\* C21.  A peer-disconnected event is never lost to a loop handler that is
\* running: while the session is active and no peer is connected, state is
\* none of LOAD_LIST, RECEIVING_LIST, LOAD_PAGE, RECEIVING_PAGE (before the
\* first connection the session only checks and waits; after a disconnect
\* onDisconnect has set WAITING_FOR_APP).
C21_DisconnectNotLost ==
  (active /\ ~ connected)
    => state \notin { "LOAD_LIST", "RECEIVING_LIST", "LOAD_PAGE", "RECEIVING_PAGE" }

\* C22.  Every read of the catalog entry at the cursor happens with
\* 0 <= currentMangaIndex < len(mangaList): the id read of handleLoadPage's
\* send step, and the title read of render in LOAD_PAGE and RECEIVING_PAGE.
C22_EntryReadsInRange ==
  [][ /\ (pcLoop = "load_page_send" /\ pcLoop' # pcLoop)
           => (currentMangaIndex >= 0 /\ currentMangaIndex < Len(mangaList))
      /\ (Render /\ RenderReadsTitle)
           => (currentMangaIndex >= 0 /\ currentMangaIndex < Len(mangaList))
    ]_vars

\* The frames of which onWrite reads a byte at an index at or beyond the frame
\* length (or below 0).
FramesReadBeyond ==
  { data \in DecoderFrames : ~ (ReadIndices(data) \subseteq 0 .. (Len(data) - 1)) }

\* C23.  The inbound decoder never reads a byte at an index at or beyond the
\* frame length: whatever the frame's length and its id-length, title-length
\* and offset bytes, onWrite never runs on a frame of which it reads an index
\* that is not smaller than the frame length.
C23_ReadsWithinFrame == [][ \A data \in FramesReadBeyond : ~ OnWrite(data) ]_vars

\* C23 witness: the decoder has read an id byte and a title byte out of a
\* frame (both lengths 1), and the entry's id byte is 255.
C23_Witness ==
  \E i \in 1..Len(mangaList) :
    /\ mangaList[i].id = << 255 >>
    /\ Len(mangaList[i].title) = 1

=============================================================================
